---- MODULE Spec2Model ----
(***************************************************************************)
(* The littlefs adapter of src/littlefs/src/lib.rs: the translation of     *)
(* engine status codes, the encoding of paths into the fixed buffers the   *)
(* engine is handed, and the LittleFs handle with the File and Dir values  *)
(* that are operated through it.                                           *)
(*                                                                         *)
(* The specifications share the variables:                                 *)
(*   SpecErr   the two translators applied to one status code              *)
(*   SpecPath  the path buffers every operation hands to the engine        *)
(*   Spec      the handle, its files and directories, call by call         *)
(*   SpecFile  the file operations, with the histories of a sequence       *)
(*   SpecTramp the four callbacks the engine reaches the medium through    *)
(*   SpecAddr  the addresses the engine keeps and the places values live   *)
(***************************************************************************)
EXTENDS Integers, Sequences, FiniteSets, TLC

VARIABLES
    \* --- SpecErr
    code,       \* the engine status code under translation (lfs::lfs_error)
    plain,      \* what lfs_to_fserror returned for it
    numeric,    \* what lfs_to_usize_fserror returned for it
    \* --- SpecPath
    path,       \* the path text (bytes of the &str) under encoding
    sent,       \* per operation, the buffers it handed to the engine for path
    \* --- Spec
    owned,      \* the caller still owns the LittleFs value (not moved into unmount)
    aborted,    \* a panic ended the program (unwrap in a trampoline, unreachable!)
    lfs,        \* LittleFs.lfs, the engine state block: "uninit", "idle", "mounted"
    disk,       \* LittleFs.storage as the engine sees it: formatted?, entries by name
    file,       \* the caller's File values and the engine file state in File.inner
    dir,        \* the caller's Dir values and the engine cursor in Dir.inner
    call,       \* the last call made on the handle: what it was and what it gave
    prev,       \* history: the last cursor-moving call on each open File
    rt,         \* history: progress of a write/close/reopen/read sequence
    track,      \* whether the two histories are kept (they are in SpecFile)
    \* --- SpecTramp
    tramp,      \* the last callback the engine made and what it forwarded
    \* --- SpecAddr
    mem         \* where LittleFs and File live, and the addresses the engine holds

errVars  == <<code, plain, numeric>>
pathVars == <<path, sent>>
fsVars   == <<owned, aborted, lfs, disk, file, dir, call, prev, rt, track>>
trampVars == <<tramp>>
memVars  == <<mem>>
vars == <<code, plain, numeric, path, sent,
          owned, aborted, lfs, disk, file, dir, call, prev, rt, track,
          tramp, mem>>

------------------------------------------------------------------------------
(* Bounds *)

\* status codes are drawn from -MaxCode .. MaxCode
MaxCode == 100
\* width of usize in bits on the modelled target (Rust guarantees at least 16)
UsizeBits == 16

------------------------------------------------------------------------------
(* Engine status codes (bindings generated from the engine's header). *)

LFS_ERR_OK       == 0
LFS_ERR_IO       == -5
LFS_ERR_CORRUPT  == -84
LFS_ERR_NOENT    == -2
LFS_ERR_EXIST    == -17
LFS_ERR_NOTDIR   == -20
LFS_ERR_ISDIR    == -21
LFS_ERR_NOTEMPTY == -39
LFS_ERR_BADF     == -9
LFS_ERR_FBIG     == -27
LFS_ERR_INVAL    == -22
LFS_ERR_NOSPC    == -28
LFS_ERR_NOMEM    == -12

\* enum FsError
FsError == {"Io", "Corrupt", "Noent", "Exist", "NotDir", "IsDir", "NotEmpty",
            "Badf", "FBig", "Inval", "Nospc", "Nomem"}

\* Result<(), FsError> and Result<usize, FsError>, in one shape
Ok0      == [ok |-> TRUE,  kind |-> "None", val |-> 0]
OkN(n)   == [ok |-> TRUE,  kind |-> "None", val |-> n]
Err(k)   == [ok |-> FALSE, kind |-> k,      val |-> 0]
NoResult == [ok |-> FALSE, kind |-> "Unset", val |-> 0]

\* `val as usize` of a 32-bit signed value: two's complement wrap to the width
AsUsize(val) == val % (2 ^ UsizeBits)

\* a translator with the NOTDIR and ISDIR arms exchanged
lfs_to_fserror_swapped(lfs_error) ==
    CASE lfs_error = LFS_ERR_IO       -> Err("Io")
      [] lfs_error = LFS_ERR_CORRUPT  -> Err("Corrupt")
      [] lfs_error = LFS_ERR_NOENT    -> Err("Noent")
      [] lfs_error = LFS_ERR_EXIST    -> Err("Exist")
      [] lfs_error = LFS_ERR_NOTDIR   -> Err("IsDir")
      [] lfs_error = LFS_ERR_ISDIR    -> Err("NotDir")
      [] lfs_error = LFS_ERR_NOTEMPTY -> Err("NotEmpty")
      [] lfs_error = LFS_ERR_BADF     -> Err("Badf")
      [] lfs_error = LFS_ERR_FBIG     -> Err("FBig")
      [] lfs_error = LFS_ERR_INVAL    -> Err("Inval")
      [] lfs_error = LFS_ERR_NOSPC    -> Err("Nospc")
      [] lfs_error = LFS_ERR_NOMEM    -> Err("Nomem")
      [] OTHER                        -> Ok0

\* fn lfs_to_fserror: twelve arms, then `_ => Ok(())`
lfs_to_fserror(lfs_error) ==
    CASE lfs_error = LFS_ERR_IO       -> Err("Io")
      [] lfs_error = LFS_ERR_CORRUPT  -> Err("Corrupt")
      [] lfs_error = LFS_ERR_NOENT    -> Err("Noent")
      [] lfs_error = LFS_ERR_EXIST    -> Err("Exist")
      [] lfs_error = LFS_ERR_NOTDIR   -> Err("NotDir")
      [] lfs_error = LFS_ERR_ISDIR    -> Err("IsDir")
      [] lfs_error = LFS_ERR_NOTEMPTY -> Err("NotEmpty")
      [] lfs_error = LFS_ERR_BADF     -> Err("Badf")
      [] lfs_error = LFS_ERR_FBIG     -> Err("FBig")
      [] lfs_error = LFS_ERR_INVAL    -> Err("Inval")
      [] lfs_error = LFS_ERR_NOSPC    -> Err("Nospc")
      [] lfs_error = LFS_ERR_NOMEM    -> Err("Nomem")
      [] OTHER                        -> Ok0

\* fn lfs_to_usize_fserror: the same twelve arms, then `val => Ok(val as usize)`
lfs_to_usize_fserror(lfs_error) ==
    CASE lfs_error = LFS_ERR_IO       -> Err("Io")
      [] lfs_error = LFS_ERR_CORRUPT  -> Err("Corrupt")
      [] lfs_error = LFS_ERR_NOENT    -> Err("Noent")
      [] lfs_error = LFS_ERR_EXIST    -> Err("Exist")
      [] lfs_error = LFS_ERR_NOTDIR   -> Err("NotDir")
      [] lfs_error = LFS_ERR_ISDIR    -> Err("IsDir")
      [] lfs_error = LFS_ERR_NOTEMPTY -> Err("NotEmpty")
      [] lfs_error = LFS_ERR_BADF     -> Err("Badf")
      [] lfs_error = LFS_ERR_FBIG     -> Err("FBig")
      [] lfs_error = LFS_ERR_INVAL    -> Err("Inval")
      [] lfs_error = LFS_ERR_NOSPC    -> Err("Nospc")
      [] lfs_error = LFS_ERR_NOMEM    -> Err("Nomem")
      [] OTHER                        -> OkN(AsUsize(lfs_error))

------------------------------------------------------------------------------
(* SpecErr: one status code, translated by each form. *)

Codes == (0 - MaxCode) .. MaxCode

PathIdle == /\ path = <<>>
            /\ sent = <<>>

\* the handle's variables, unused by SpecErr and SpecPath
FsIdle == /\ owned = FALSE
          /\ aborted = FALSE
          /\ lfs = "uninit"
          /\ disk = <<>>
          /\ file = <<>>
          /\ dir = <<>>
          /\ call = <<>>
          /\ prev = <<>>
          /\ rt = <<>>
          /\ track = FALSE

\* the callbacks and the addresses, unused outside SpecTramp and SpecAddr
TrampIdle == tramp = <<>>
MemIdle   == mem = <<>>

InitErr ==
    /\ code \in Codes
    /\ plain = NoResult
    /\ numeric = NoResult
    /\ PathIdle
    /\ FsIdle
    /\ TrampIdle
    /\ MemIdle

TranslatePlain ==
    /\ plain = NoResult
    /\ plain' = lfs_to_fserror(code)
    /\ UNCHANGED <<code, numeric, pathVars, fsVars, trampVars, memVars>>

TranslateNumeric ==
    /\ numeric = NoResult
    /\ numeric' = lfs_to_usize_fserror(code)
    /\ UNCHANGED <<code, plain, pathVars, fsVars, trampVars, memVars>>

NextErr == TranslatePlain \/ TranslateNumeric

SpecErr == InitErr /\ [][NextErr]_vars

------------------------------------------------------------------------------
(* Path encoding: each path-taking method builds its own zeroed buffer and  *)
(* copies a prefix of the path text into it.                                *)

\* const NAME_MAX_LEN: usize = lfs::LFS_NAME_MAX as usize
NAME_MAX_LEN == 255

\* path lengths 0 .. PathShort and NAME_MAX_LEN - PathOver .. NAME_MAX_LEN + PathOver
PathShort == 2
PathOver == 2

\* cmp::min
Min(a, b) == IF a <= b THEN a ELSE b

\* [0u8; n]
ZeroBuf(n) == [i \in 1..n |-> 0]

\* dst[..len].copy_from_slice(&src[..len]): either slice index panics when len
\* exceeds the length of the array it slices
CopyFromSlice(dst, src, len) ==
    IF len > Len(dst) \/ len > Len(src)
    THEN [buf |-> dst, panic |-> TRUE]
    ELSE [buf |-> [i \in 1..Len(dst) |-> IF i <= len THEN src[i] ELSE dst[i]],
          panic |-> FALSE]

\* remove with the length taken from the path alone, not bounded by NAME_MAX_LEN
remove_cstr_unbounded(p) ==
    LET cstr == ZeroBuf(NAME_MAX_LEN + 1)
        len  == Len(p)
    IN  CopyFromSlice(cstr, p, len)

\* LittleFs::remove: cstr
remove_cstr(p) ==
    LET cstr == ZeroBuf(NAME_MAX_LEN + 1)
        len  == Min(NAME_MAX_LEN, Len(p))
    IN  CopyFromSlice(cstr, p, len)

\* LittleFs::rename: oldpath
rename_oldpath(old_path) ==
    LET oldpath    == ZeroBuf(NAME_MAX_LEN + 1)
        oldpathlen == Min(NAME_MAX_LEN, Len(old_path))
    IN  CopyFromSlice(oldpath, old_path, oldpathlen)

\* LittleFs::rename: newpath
rename_newpath(new_path) ==
    LET newpath    == ZeroBuf(NAME_MAX_LEN + 1)
        newpathlen == Min(NAME_MAX_LEN, Len(new_path))
    IN  CopyFromSlice(newpath, new_path, newpathlen)

\* LittleFs::stat: cstr
stat_cstr(p) ==
    LET cstr == ZeroBuf(NAME_MAX_LEN + 1)
        len  == Min(NAME_MAX_LEN, Len(p))
    IN  CopyFromSlice(cstr, p, len)

\* LittleFs::file_open: cstr_path, one byte shorter than the others and
\* filled with at most NAME_MAX_LEN - 1 bytes of the path
file_open_cstr_path(p) ==
    LET cstr_path == ZeroBuf(NAME_MAX_LEN)
        len       == Min(NAME_MAX_LEN - 1, Len(p))
    IN  CopyFromSlice(cstr_path, p, len)

\* LittleFs::mkdir: cstr_path
mkdir_cstr_path(p) ==
    LET cstr_path == ZeroBuf(NAME_MAX_LEN + 1)
        len       == Min(NAME_MAX_LEN, Len(p))
    IN  CopyFromSlice(cstr_path, p, len)

\* LittleFs::dir_open: cstr_path
dir_open_cstr_path(p) ==
    LET cstr_path == ZeroBuf(NAME_MAX_LEN + 1)
        len       == Min(NAME_MAX_LEN, Len(p))
    IN  CopyFromSlice(cstr_path, p, len)

\* the length of the C string the engine reads at the start of buf: the bytes
\* before the first zero (the whole buffer when it holds no zero)
ScanZero(buf) ==
    LET zeros == {i \in 1 .. Len(buf) : buf[i] = 0}
    IN  IF zeros = {} THEN Len(buf)
        ELSE (CHOOSE i \in zeros : \A j \in zeros : i <= j) - 1

\* the C string the engine reads from a buffer handed to it as *const c_char
CStr(buf) == SubSeq(buf, 1, ScanZero(buf))

------------------------------------------------------------------------------
(* SpecPath: one path text, encoded by every path-taking operation.         *)

PathLens == (0 .. PathShort)
            \cup ((NAME_MAX_LEN - PathOver) .. (NAME_MAX_LEN + PathOver))

\* a path text of length n: '/' then letters that depend on the position
MkPath(n, k) == [i \in 1..n |-> IF i = 1 THEN 47 ELSE 97 + ((i + k) % 26)]

PathInputs == {MkPath(n, k) : n \in PathLens, k \in {0, 7}}

PathOps == {"remove", "mkdir", "stat", "dir_open", "rename", "file_open"}

ErrIdle == /\ code = 0
           /\ plain = NoResult
           /\ numeric = NoResult

InitPath ==
    /\ path \in PathInputs
    /\ sent = [o \in PathOps |-> <<>>]
    /\ ErrIdle
    /\ FsIdle
    /\ TrampIdle
    /\ MemIdle

\* what one call hands over: the text it was given and the buffer built from it
Handed(text, enc) == [text |-> text, buf |-> enc.buf, panic |-> enc.panic]

EncodeRemove ==
    /\ sent["remove"] = <<>>
    /\ sent' = [sent EXCEPT !["remove"] = <<Handed(path, remove_cstr(path))>>]
    /\ UNCHANGED <<path, errVars, fsVars, trampVars, memVars>>

EncodeMkdir ==
    /\ sent["mkdir"] = <<>>
    /\ sent' = [sent EXCEPT !["mkdir"] = <<Handed(path, mkdir_cstr_path(path))>>]
    /\ UNCHANGED <<path, errVars, fsVars, trampVars, memVars>>

EncodeStat ==
    /\ sent["stat"] = <<>>
    /\ sent' = [sent EXCEPT !["stat"] = <<Handed(path, stat_cstr(path))>>]
    /\ UNCHANGED <<path, errVars, fsVars, trampVars, memVars>>

EncodeDirOpen ==
    /\ sent["dir_open"] = <<>>
    /\ sent' = [sent EXCEPT !["dir_open"] =
                    <<Handed(path, dir_open_cstr_path(path))>>]
    /\ UNCHANGED <<path, errVars, fsVars, trampVars, memVars>>

EncodeFileOpen ==
    /\ sent["file_open"] = <<>>
    /\ sent' = [sent EXCEPT !["file_open"] =
                    <<Handed(path, file_open_cstr_path(path))>>]
    /\ UNCHANGED <<path, errVars, fsVars, trampVars, memVars>>

\* rename(path, other): the two buffers, old path first
EncodeRename ==
    /\ sent["rename"] = <<>>
    /\ \E other \in PathInputs :
          sent' = [sent EXCEPT !["rename"] =
                      <<Handed(path, rename_oldpath(path)),
                        Handed(other, rename_newpath(other))>>]
    /\ UNCHANGED <<path, errVars, fsVars, trampVars, memVars>>

NextPath ==
    \/ EncodeRemove
    \/ EncodeMkdir
    \/ EncodeStat
    \/ EncodeDirOpen
    \/ EncodeFileOpen
    \/ EncodeRename

SpecPath == InitPath /\ [][NextPath]_vars

------------------------------------------------------------------------------
(* The handle. The engine behind the lfs_* entry points is outside          *)
(* src/: its behaviour on a mounted filesystem is modelled from the         *)
(* specification (a flat namespace of files and directories under the       *)
(* root, a byte cursor per open file, contents committed on sync and close).*)

\* files hold at most MaxFileLen bytes, and cursors stay within 0 .. MaxFileLen
MaxFileLen == 2

\* bitflags! struct FileOpenFlags
RDONLY == 1
WRONLY == 2
RDWR   == 3
CREAT  == 256
EXCL   == 512
TRUNC  == 1024
APPEND == 2048

HasFlag(flags, bit) == (flags \div bit) % 2 = 1

\* enum Whence, cast with `whence as i32`; Set and Cur exchanged
whence_as_i32_swapped(whence) ==
    CASE whence = "Set" -> 1
      [] whence = "Cur" -> 0
      [] whence = "End" -> 2

\* enum Whence, cast with `whence as i32`
whence_as_i32(whence) ==
    CASE whence = "Set" -> 0
      [] whence = "Cur" -> 1
      [] whence = "End" -> 2

\* the engine's whence values
LFS_SEEK_SET == 0
LFS_SEEK_CUR == 1
LFS_SEEK_END == 2

\* path texts: "/" and "/a"
FsPaths == {<<47>>, <<47, 97>>}

IsRoot(name) == name = <<>> \/ name = <<47>>

\* the names the engine can be handed for these paths, the root aside
Names == {n \in {CStr(remove_cstr(p).buf) : p \in FsPaths}
                \cup {CStr(file_open_cstr_path(p).buf) : p \in FsPaths} :
            ~IsRoot(n)}

\* the name each operation makes the engine read for a path text
RemoveName   == [p \in FsPaths |-> CStr(remove_cstr(p).buf)]
RenameOld    == [p \in FsPaths |-> CStr(rename_oldpath(p).buf)]
RenameNew    == [p \in FsPaths |-> CStr(rename_newpath(p).buf)]
StatName     == [p \in FsPaths |-> CStr(stat_cstr(p).buf)]
FileOpenName == [p \in FsPaths |-> CStr(file_open_cstr_path(p).buf)]
MkdirName    == [p \in FsPaths |-> CStr(mkdir_cstr_path(p).buf)]
DirOpenName  == [p \in FsPaths |-> CStr(dir_open_cstr_path(p).buf)]

NoEntry      == [kind |-> "none", data |-> <<>>]
FileEntry(d) == [kind |-> "file", data |-> d]
DirEntry     == [kind |-> "dir",  data |-> <<>>]

\* an erased medium, and one just formatted
BlankDisk == [formatted |-> FALSE, ent |-> [n \in Names |-> NoEntry]]
FreshDisk == [formatted |-> TRUE,  ent |-> [n \in Names |-> NoEntry]]

EntryOf(d, name) ==
    IF IsRoot(name) THEN DirEntry
    ELSE IF name \in Names THEN d.ent[name] ELSE NoEntry

\* struct File: st is "absent" (no value: never made, or moved into a call),
\* "unopened" (File::default(), inner not initialised by the engine) or "open"
FileValue(st) == [st |-> st, name |-> <<>>, flags |-> 0, pos |-> 0, data |-> <<>>]

\* struct Dir: st is "absent", "unopened", "open" or "closed" (dir_close only
\* borrows the value, so it stays with the caller)
DirValue(st) == [st |-> st, name |-> <<>>, pos |-> 0]

FileIds == {1}
DirIds  == {1}

\* buf written at offset at into data, zero-filling a gap
WriteAt(data, at, buf) ==
    LET n == IF at + Len(buf) > Len(data) THEN at + Len(buf) ELSE Len(data)
    IN  [i \in 1..n |->
            IF i > at /\ i <= at + Len(buf) THEN buf[i - at]
            ELSE IF i <= Len(data) THEN data[i] ELSE 0]

\* lfs_file_opencfg on a mounted filesystem
e_file_open(d, name, flags) ==
    LET e == EntryOf(d, name) IN
    CASE e.kind = "dir" ->
            [res |-> LFS_ERR_ISDIR, disk |-> d, f |-> FileValue("unopened")]
      [] e.kind = "none" /\ ~HasFlag(flags, CREAT) ->
            [res |-> LFS_ERR_NOENT, disk |-> d, f |-> FileValue("unopened")]
      [] e.kind = "none" /\ HasFlag(flags, CREAT) ->
            [res |-> 0,
             disk |-> [d EXCEPT !.ent[name] = FileEntry(<<>>)],
             f |-> [st |-> "open", name |-> name, flags |-> flags,
                    pos |-> 0, data |-> <<>>]]
      [] e.kind = "file" /\ HasFlag(flags, CREAT) /\ HasFlag(flags, EXCL) ->
            [res |-> LFS_ERR_EXIST, disk |-> d, f |-> FileValue("unopened")]
      [] OTHER ->
            [res |-> 0, disk |-> d,
             f |-> [st |-> "open", name |-> name, flags |-> flags, pos |-> 0,
                    data |-> IF HasFlag(flags, TRUNC) THEN <<>> ELSE e.data]]

\* lfs_file_sync: commit the file's bytes to its entry
e_file_sync(d, f) ==
    IF f.name \in Names /\ d.ent[f.name].kind = "file" /\ HasFlag(f.flags, WRONLY)
    THEN [d EXCEPT !.ent[f.name] = FileEntry(f.data)]
    ELSE d

\* lfs_file_write of buf (size = Len(buf))
e_file_write(f, buf) ==
    LET at == IF HasFlag(f.flags, APPEND) THEN Len(f.data) ELSE f.pos IN
    IF ~HasFlag(f.flags, WRONLY) THEN [res |-> LFS_ERR_BADF, f |-> f]
    ELSE IF at + Len(buf) > MaxFileLen THEN [res |-> LFS_ERR_FBIG, f |-> f]
    ELSE [res |-> Len(buf),
          f |-> [f EXCEPT !.data = WriteAt(f.data, at, buf),
                          !.pos = at + Len(buf)]]

\* lfs_file_read into a buffer of size bytes
e_file_read(f, size) ==
    LET left == IF f.pos >= Len(f.data) THEN 0 ELSE Len(f.data) - f.pos
        n    == Min(size, left)
    IN  IF ~HasFlag(f.flags, RDONLY)
        THEN [res |-> LFS_ERR_BADF, f |-> f, bytes |-> <<>>]
        ELSE [res |-> n, f |-> [f EXCEPT !.pos = f.pos + n],
              bytes |-> SubSeq(f.data, f.pos + 1, f.pos + n)]

\* lfs_file_seek(off, whence)
e_file_seek(f, off, whence) ==
    LET npos == CASE whence = LFS_SEEK_SET -> off
                  [] whence = LFS_SEEK_CUR -> f.pos + off
                  [] whence = LFS_SEEK_END -> Len(f.data) + off
                  [] OTHER -> 0 - 1
    IN  IF npos < 0 THEN [res |-> LFS_ERR_INVAL, f |-> f]
        ELSE [res |-> npos, f |-> [f EXCEPT !.pos = npos]]

\* lfs_file_truncate(size)
e_file_truncate(f, size) ==
    IF ~HasFlag(f.flags, WRONLY) THEN [res |-> LFS_ERR_BADF, f |-> f]
    ELSE [res |-> 0,
          f |-> [f EXCEPT !.data =
                    [i \in 1..size |-> IF i <= Len(f.data) THEN f.data[i] ELSE 0]]]

\* lfs_remove
e_remove(d, name) ==
    CASE IsRoot(name) -> [res |-> LFS_ERR_INVAL, disk |-> d]
      [] EntryOf(d, name).kind = "none" -> [res |-> LFS_ERR_NOENT, disk |-> d]
      [] OTHER -> [res |-> 0, disk |-> [d EXCEPT !.ent[name] = NoEntry]]

\* lfs_rename
e_rename(d, old, new) ==
    LET eo == EntryOf(d, old)
        en == EntryOf(d, new)
    IN  CASE eo.kind = "none" -> [res |-> LFS_ERR_NOENT, disk |-> d]
          [] IsRoot(old) \/ IsRoot(new) -> [res |-> LFS_ERR_INVAL, disk |-> d]
          [] en.kind = "dir" /\ eo.kind = "file" ->
                [res |-> LFS_ERR_ISDIR, disk |-> d]
          [] en.kind = "file" /\ eo.kind = "dir" ->
                [res |-> LFS_ERR_NOTDIR, disk |-> d]
          [] old = new -> [res |-> 0, disk |-> d]
          [] OTHER ->
                [res |-> 0,
                 disk |-> [d EXCEPT !.ent[new] = eo, !.ent[old] = NoEntry]]

\* lfs_mkdir
e_mkdir(d, name) ==
    IF EntryOf(d, name).kind # "none" THEN [res |-> LFS_ERR_EXIST, disk |-> d]
    ELSE [res |-> 0, disk |-> [d EXCEPT !.ent[name] = DirEntry]]

\* lfs_stat: res, and whether the engine filled in the lfs_info record
e_stat(d, name) ==
    IF EntryOf(d, name).kind = "none"
    THEN [res |-> LFS_ERR_NOENT, filled |-> FALSE]
    ELSE [res |-> 0, filled |-> TRUE]

\* lfs_dir_open
e_dir_open(d, name) ==
    CASE EntryOf(d, name).kind = "none" -> LFS_ERR_NOENT
      [] EntryOf(d, name).kind = "file" -> LFS_ERR_NOTDIR
      [] OTHER -> 0

\* the number of entries lfs_dir_read yields for a directory: ".", "..", and
\* for the root the entries that exist
DirLen(d, name) ==
    2 + (IF IsRoot(name)
         THEN Cardinality({n \in Names : d.ent[n].kind # "none"}) ELSE 0)

\* lfs_dir_read: 1 and a filled record while entries remain, then 0
e_dir_read(d, c) ==
    IF c.pos < DirLen(d, c.name)
    THEN [res |-> 1, filled |-> TRUE,  c |-> [c EXCEPT !.pos = c.pos + 1]]
    ELSE [res |-> 0, filled |-> FALSE, c |-> c]

\* impl From<lfs::lfs_info> for Info: a record the engine filled in converts;
\* one it left uninitialised holds any type tag (REG or DIR converts whatever
\* bytes are there, any other tag reaches unreachable!()) 
InfoFrom(filled) == IF filled THEN {"converted"} ELSE {"garbage", "panic"}

------------------------------------------------------------------------------
(* Spec: the calls a caller can make on one LittleFs value.                 *)

Lifecycle ==
    IF ~owned THEN "Consumed"
    ELSE IF lfs = "mounted" THEN "Mounted" ELSE "Unmounted"

\* the caller can call a method: it owns the value and the program runs
Live == owned /\ ~aborted

NoPrev == [op |-> "none", arg |-> 0, w |-> "-", first |-> FALSE]
PrevRec(op, arg, w, first) == [op |-> op, arg |-> arg, w |-> w, first |-> first]

NoRt == [stage |-> 0, p |-> <<>>, b |-> <<>>, old |-> 0]

NoCall == [op |-> "none", before |-> "Unmounted", h |-> 0, hs |-> "none",
           arg |-> 0, res |-> 0, ret |-> NoResult, data |-> <<>>,
           info |-> "none", pv |-> NoPrev]

\* the record of a call on the handle alone
Rec(op, res, ret, info) ==
    [op |-> op, before |-> Lifecycle, h |-> 0, hs |-> "none", arg |-> 0,
     res |-> res, ret |-> ret, data |-> <<>>, info |-> info, pv |-> NoPrev]

\* the record of a call on File h
FRec(op, h, arg, res, ret, data) ==
    [op |-> op, before |-> Lifecycle, h |-> h, hs |-> file[h].st, arg |-> arg,
     res |-> res, ret |-> ret, data |-> data, info |-> "none",
     pv |-> IF op \in {"file_read", "file_tell"} THEN prev[h] ELSE NoPrev]

\* the record of a call on Dir d
DRec(op, d, res, ret, info) ==
    [op |-> op, before |-> Lifecycle, h |-> d, hs |-> dir[d].st, arg |-> 0,
     res |-> res, ret |-> ret, data |-> <<>>, info |-> info, pv |-> NoPrev]

InitHandle ==
    /\ owned = TRUE
    /\ aborted = FALSE
    /\ lfs = "uninit"
    /\ disk \in {BlankDisk, FreshDisk}
    /\ file = [h \in FileIds |-> FileValue("absent")]
    /\ dir = [d \in DirIds |-> DirValue("absent")]
    /\ call = NoCall
    /\ prev = [h \in FileIds |-> NoPrev]
    /\ rt = NoRt
    /\ ErrIdle
    /\ PathIdle
    /\ TrampIdle
    /\ MemIdle

Init == InitHandle /\ track = FALSE

InitFile == InitHandle /\ track = TRUE

Aux == UNCHANGED <<errVars, pathVars, track, trampVars, memVars>>

\* a panic: the program ends, and with it every value the caller held; what
\* the medium holds stays
Panic ==
    /\ aborted' = TRUE
    /\ owned' = FALSE
    /\ file' = [h \in FileIds |-> FileValue("absent")]
    /\ dir' = [d \in DirIds |-> DirValue("absent")]
    /\ call' = NoCall
    /\ prev' = [h \in FileIds |-> NoPrev]
    /\ rt' = NoRt
    /\ UNCHANGED <<lfs, disk>>

\* status codes the engine can give when it runs on a state block, a file
\* state or a cursor that nothing initialised, and what it may leave on disk
WildCodes == {LFS_ERR_OK, LFS_ERR_CORRUPT}
WildDisk  == {disk, BlankDisk}

\* format and mount re-initialise the engine state block: the File and Dir
\* values opened before are no longer known to the engine
Forgotten(f) == IF f.st = "open" THEN FileValue("unopened") ELSE f
ForgottenDir(c) == IF c.st = "open" THEN DirValue("unopened") ELSE c

\* let mut file = Default::default()
NewFile(h) ==
    /\ Live
    /\ file[h].st = "absent"
    /\ file' = [file EXCEPT ![h] = FileValue("unopened")]
    /\ UNCHANGED <<owned, aborted, lfs, disk, dir, call, prev, rt>>
    /\ Aux

\* a Dir value whose inner cursor nothing has initialised yet
NewDir(d) ==
    /\ Live
    /\ dir[d].st = "absent"
    /\ dir' = [dir EXCEPT ![d] = DirValue("unopened")]
    /\ rt' = NoRt
    /\ UNCHANGED <<owned, aborted, lfs, disk, file, call, prev>>
    /\ Aux

\* LittleFs::format
Format ==
    /\ Live
    /\ \E res \in {LFS_ERR_OK, LFS_ERR_IO} :
              /\ disk' = IF res = LFS_ERR_OK THEN FreshDisk ELSE BlankDisk
              /\ lfs' = "idle"
              /\ call' = Rec("format", res, lfs_to_fserror(res), "none")
              /\ file' = [h \in FileIds |-> Forgotten(file[h])]
              /\ dir' = [d \in DirIds |-> ForgottenDir(dir[d])]
              /\ prev' = [h \in FileIds |-> NoPrev]
              /\ rt' = NoRt
              /\ UNCHANGED <<owned, aborted>>
    /\ Aux

\* LittleFs::mount
Mount ==
    /\ Live
    /\ \E res \in (IF disk.formatted THEN {LFS_ERR_OK, LFS_ERR_IO}
                     ELSE {LFS_ERR_CORRUPT}) :
              /\ lfs' = IF res = LFS_ERR_OK THEN "mounted" ELSE "idle"
              /\ call' = Rec("mount", res, lfs_to_fserror(res), "none")
              /\ file' = [h \in FileIds |-> Forgotten(file[h])]
              /\ dir' = [d \in DirIds |-> ForgottenDir(dir[d])]
              /\ prev' = [h \in FileIds |-> NoPrev]
              /\ rt' = NoRt
              /\ UNCHANGED <<owned, aborted, disk>>
    /\ Aux

\* unmount taking &mut self: the caller keeps the handle
UnmountBorrowing ==
    /\ Live
    /\ \E res \in (IF lfs = "mounted" THEN {LFS_ERR_OK} ELSE WildCodes) :
          /\ call' = Rec("unmount", res, lfs_to_fserror(res), "none")
          /\ lfs' = "idle"
          /\ rt' = NoRt
          /\ UNCHANGED <<owned, aborted, disk, file, dir, prev>>
    /\ Aux

\* LittleFs::unmount(mut self): the handle is moved into the call
Unmount ==
    /\ Live
    /\ \E res \in (IF lfs = "mounted" THEN {LFS_ERR_OK} ELSE WildCodes) :
          /\ call' = Rec("unmount", res, lfs_to_fserror(res), "none")
          /\ owned' = FALSE
          /\ lfs' = "idle"
          /\ rt' = NoRt
          /\ UNCHANGED <<aborted, disk, file, dir, prev>>
    /\ Aux

\* LittleFs::remove
Remove(p) ==
    /\ Live
    /\ \/ /\ lfs = "mounted"
          /\ LET r == e_remove(disk, RemoveName[p]) IN
                /\ disk' = r.disk
                /\ call' = Rec("remove", r.res, lfs_to_fserror(r.res), "none")
       \/ /\ lfs # "mounted"
          /\ \E res \in WildCodes, d2 \in WildDisk :
                /\ disk' = d2
                /\ call' = Rec("remove", res, lfs_to_fserror(res), "none")
    /\ rt' = NoRt
    /\ UNCHANGED <<owned, aborted, lfs, file, dir, prev>>
    /\ Aux

\* LittleFs::rename
Rename(old_path, new_path) ==
    /\ Live
    /\ \/ /\ lfs = "mounted"
          /\ LET r == e_rename(disk, RenameOld[old_path],
                                     RenameNew[new_path]) IN
                /\ disk' = r.disk
                /\ call' = Rec("rename", r.res, lfs_to_fserror(r.res), "none")
       \/ /\ lfs # "mounted"
          /\ \E res \in WildCodes, d2 \in WildDisk :
                /\ disk' = d2
                /\ call' = Rec("rename", res, lfs_to_fserror(res), "none")
    /\ rt' = NoRt
    /\ UNCHANGED <<owned, aborted, lfs, file, dir, prev>>
    /\ Aux

\* LittleFs::stat: the record is converted before the status is looked at
Stat(p) ==
    /\ Live
    /\ \E r \in (IF lfs = "mounted" THEN {e_stat(disk, StatName[p])}
                  ELSE {[res |-> c, filled |-> FALSE] : c \in WildCodes}) :
          \E o \in InfoFrom(r.filled) :
             IF o = "panic"
             THEN Panic
             ELSE /\ call' = Rec("stat", r.res, lfs_to_fserror(r.res), o)
                  /\ rt' = NoRt
                  /\ UNCHANGED <<owned, aborted, lfs, disk, file, dir, prev>>
    /\ Aux

\* LittleFs::mkdir
Mkdir(p) ==
    /\ Live
    /\ \/ /\ lfs = "mounted"
          /\ LET r == e_mkdir(disk, MkdirName[p]) IN
                /\ disk' = r.disk
                /\ call' = Rec("mkdir", r.res, lfs_to_fserror(r.res), "none")
       \/ /\ lfs # "mounted"
          /\ \E res \in WildCodes, d2 \in WildDisk :
                /\ disk' = d2
                /\ call' = Rec("mkdir", res, lfs_to_fserror(res), "none")
    /\ rt' = NoRt
    /\ UNCHANGED <<owned, aborted, lfs, file, dir, prev>>
    /\ Aux

\* the engine can work on File h: the filesystem is mounted and the engine
\* opened the file since
Valid(h) == lfs = "mounted" /\ file[h].st = "open"

ValidDir(d) == lfs = "mounted" /\ dir[d].st = "open"

\* file_read's return value, with the count collapsed as lfs_to_fserror does
file_read_result_plain(res) == lfs_to_fserror(res)

\* LittleFs::file_read: the return value
file_read_result(res) == lfs_to_usize_fserror(res)

\* LittleFs::file_open
FileOpen(h, p, flags) ==
    /\ Live
    /\ file[h].st # "absent"
    /\ \/ /\ lfs = "mounted"
          /\ LET r == e_file_open(disk, FileOpenName[p], flags)
             IN
                /\ disk' = r.disk
                /\ file' = [file EXCEPT ![h] = r.f]
                /\ call' = FRec("file_open", h, flags, r.res,
                                lfs_to_fserror(r.res), <<>>)
                /\ prev' = IF ~track THEN prev ELSE [prev EXCEPT ![h] =
                                IF r.res = 0
                                THEN PrevRec("file_open", 0, "-", TRUE)
                                ELSE NoPrev]
                /\ rt' = IF ~track THEN NoRt ELSE IF r.res = 0 /\ flags = CREAT + RDWR
                         THEN [stage |-> 1, p |-> p, b |-> <<>>,
                               old |-> Len(r.f.data)]
                         ELSE IF r.res = 0 /\ rt.stage = 3 /\ flags = RDWR
                                 /\ p = rt.p
                         THEN [rt EXCEPT !.stage = 4]
                         ELSE NoRt
       \/ /\ lfs # "mounted"
          /\ \E res \in WildCodes, d2 \in WildDisk :
                /\ disk' = d2
                /\ call' = FRec("file_open", h, flags, res,
                                lfs_to_fserror(res), <<>>)
          /\ rt' = NoRt
          /\ UNCHANGED <<file, prev>>
    /\ UNCHANGED <<owned, aborted, lfs, dir>>
    /\ Aux

\* LittleFs::file_close(file: File): the File is moved into the call
FileClose(h) ==
    /\ Live
    /\ file[h].st # "absent"
    /\ \/ /\ Valid(h)
          /\ disk' = e_file_sync(disk, file[h])
          /\ call' = FRec("file_close", h, 0, 0, lfs_to_fserror(0), <<>>)
          /\ rt' = IF ~track THEN NoRt
                   ELSE IF rt.stage = 2 THEN [rt EXCEPT !.stage = 3] ELSE NoRt
       \/ /\ ~Valid(h)
          /\ \E res \in WildCodes, d2 \in WildDisk :
                /\ disk' = d2
                /\ call' = FRec("file_close", h, 0, res, lfs_to_fserror(res), <<>>)
          /\ rt' = NoRt
    /\ file' = [file EXCEPT ![h] = FileValue("absent")]
    /\ prev' = IF ~track THEN prev ELSE [prev EXCEPT ![h] = NoPrev]
    /\ UNCHANGED <<owned, aborted, lfs, dir>>
    /\ Aux

\* LittleFs::file_sync(file: File): the File is moved into the call as well;
\* the engine keeps the file open, the caller has no value left to name it
FileSync(h) ==
    /\ Live
    /\ file[h].st # "absent"
    /\ \/ /\ Valid(h)
          /\ disk' = e_file_sync(disk, file[h])
          /\ call' = FRec("file_sync", h, 0, 0, lfs_to_fserror(0), <<>>)
       \/ /\ ~Valid(h)
          /\ \E res \in WildCodes, d2 \in WildDisk :
                /\ disk' = d2
                /\ call' = FRec("file_sync", h, 0, res, lfs_to_fserror(res), <<>>)
    /\ rt' = NoRt
    /\ file' = [file EXCEPT ![h] = FileValue("absent")]
    /\ prev' = IF ~track THEN prev ELSE [prev EXCEPT ![h] = NoPrev]
    /\ UNCHANGED <<owned, aborted, lfs, dir>>
    /\ Aux

\* LittleFs::file_read into a buffer of n bytes
FileRead(h, n) ==
    /\ Live
    /\ file[h].st # "absent"
    /\ \/ /\ Valid(h)
          /\ LET r == e_file_read(file[h], n) IN
                /\ file' = [file EXCEPT ![h] = r.f]
                /\ call' = FRec("file_read", h, n, r.res,
                                file_read_result(r.res), r.bytes)
          /\ prev' = IF ~track THEN prev
                   ELSE [prev EXCEPT ![h] = PrevRec("other", 0, "-", FALSE)]
          /\ rt' = IF ~track THEN NoRt ELSE IF rt.stage = 4 /\ n >= Len(rt.b)
                   THEN [rt EXCEPT !.stage = 5] ELSE NoRt
          /\ UNCHANGED disk
       \/ /\ ~Valid(h)
          /\ \E res \in WildCodes, d2 \in WildDisk :
                /\ disk' = d2
                /\ call' = FRec("file_read", h, n, res,
                                file_read_result(res), <<>>)
          /\ rt' = NoRt
          /\ UNCHANGED <<file, prev>>
    /\ UNCHANGED <<owned, aborted, lfs, dir>>
    /\ Aux

\* LittleFs::file_write of the bytes buf
FileWrite(h, buf) ==
    /\ Live
    /\ file[h].st # "absent"
    /\ \/ /\ Valid(h)
          /\ LET r == e_file_write(file[h], buf) IN
                /\ file' = [file EXCEPT ![h] = r.f]
                /\ call' = FRec("file_write", h, Len(buf), r.res,
                                lfs_to_usize_fserror(r.res), <<>>)
                /\ prev' = IF ~track THEN prev ELSE [prev EXCEPT ![h] =
                                IF r.res >= 0
                                THEN PrevRec("file_write", r.res, "-",
                                             prev[h].op = "file_open")
                                ELSE PrevRec("other", 0, "-", FALSE)]
                /\ rt' = IF ~track THEN NoRt ELSE IF rt.stage = 1 /\ r.res = Len(buf)
                         THEN [rt EXCEPT !.stage = 2, !.b = buf] ELSE NoRt
          /\ UNCHANGED disk
       \/ /\ ~Valid(h)
          /\ \E res \in WildCodes, d2 \in WildDisk :
                /\ disk' = d2
                /\ call' = FRec("file_write", h, Len(buf), res,
                                lfs_to_usize_fserror(res), <<>>)
          /\ rt' = NoRt
          /\ UNCHANGED <<file, prev>>
    /\ UNCHANGED <<owned, aborted, lfs, dir>>
    /\ Aux

\* LittleFs::file_seek
FileSeek(h, off, whence) ==
    /\ Live
    /\ file[h].st # "absent"
    /\ \/ /\ Valid(h)
          /\ LET r == e_file_seek(file[h], off, whence_as_i32(whence)) IN
                /\ r.f.pos <= MaxFileLen
                /\ file' = [file EXCEPT ![h] = r.f]
                /\ call' = FRec("file_seek", h, off, r.res,
                                lfs_to_fserror(r.res), <<>>)
                /\ prev' = IF ~track THEN prev ELSE [prev EXCEPT ![h] =
                                IF r.res >= 0
                                THEN PrevRec("file_seek", off, whence, FALSE)
                                ELSE PrevRec("other", 0, "-", FALSE)]
          /\ UNCHANGED disk
       \/ /\ ~Valid(h)
          /\ \E res \in WildCodes, d2 \in WildDisk :
                /\ disk' = d2
                /\ call' = FRec("file_seek", h, off, res,
                                lfs_to_fserror(res), <<>>)
          /\ UNCHANGED <<file, prev>>
    /\ rt' = NoRt
    /\ UNCHANGED <<owned, aborted, lfs, dir>>
    /\ Aux

\* LittleFs::file_truncate
FileTruncate(h, size) ==
    /\ Live
    /\ file[h].st # "absent"
    /\ \/ /\ Valid(h)
          /\ LET r == e_file_truncate(file[h], size) IN
                /\ file' = [file EXCEPT ![h] = r.f]
                /\ call' = FRec("file_truncate", h, size, r.res,
                                lfs_to_fserror(r.res), <<>>)
          /\ prev' = IF ~track THEN prev
                   ELSE [prev EXCEPT ![h] = PrevRec("other", 0, "-", FALSE)]
          /\ UNCHANGED disk
       \/ /\ ~Valid(h)
          /\ \E res \in WildCodes, d2 \in WildDisk :
                /\ disk' = d2
                /\ call' = FRec("file_truncate", h, size, res,
                                lfs_to_fserror(res), <<>>)
          /\ UNCHANGED <<file, prev>>
    /\ rt' = NoRt
    /\ UNCHANGED <<owned, aborted, lfs, dir>>
    /\ Aux

\* LittleFs::file_tell
FileTell(h) ==
    /\ Live
    /\ file[h].st # "absent"
    /\ \/ /\ Valid(h)
          /\ call' = FRec("file_tell", h, 0, file[h].pos,
                          lfs_to_usize_fserror(file[h].pos), <<>>)
          /\ UNCHANGED disk
       \/ /\ ~Valid(h)
          /\ \E res \in WildCodes, d2 \in WildDisk :
                /\ disk' = d2
                /\ call' = FRec("file_tell", h, 0, res,
                                lfs_to_usize_fserror(res), <<>>)
    /\ rt' = NoRt
    /\ UNCHANGED <<owned, aborted, lfs, file, dir, prev>>
    /\ Aux

\* LittleFs::file_rewind
FileRewind(h) ==
    /\ Live
    /\ file[h].st # "absent"
    /\ \/ /\ Valid(h)
          /\ LET r == e_file_seek(file[h], 0, LFS_SEEK_SET) IN
                /\ file' = [file EXCEPT ![h] = r.f]
                /\ call' = FRec("file_rewind", h, 0, 0, lfs_to_fserror(0), <<>>)
          /\ prev' = IF ~track THEN prev
                   ELSE [prev EXCEPT ![h] = PrevRec("file_rewind", 0, "-", FALSE)]
          /\ UNCHANGED disk
       \/ /\ ~Valid(h)
          /\ \E res \in WildCodes, d2 \in WildDisk :
                /\ disk' = d2
                /\ call' = FRec("file_rewind", h, 0, res,
                                lfs_to_fserror(res), <<>>)
          /\ UNCHANGED <<file, prev>>
    /\ rt' = NoRt
    /\ UNCHANGED <<owned, aborted, lfs, dir>>
    /\ Aux

\* LittleFs::file_size
FileSize(h) ==
    /\ Live
    /\ file[h].st # "absent"
    /\ \/ /\ Valid(h)
          /\ call' = FRec("file_size", h, 0, Len(file[h].data),
                          lfs_to_usize_fserror(Len(file[h].data)), <<>>)
          /\ rt' = IF ~track THEN NoRt ELSE IF rt.stage = 2 THEN rt ELSE NoRt
          /\ UNCHANGED disk
       \/ /\ ~Valid(h)
          /\ \E res \in WildCodes, d2 \in WildDisk :
                /\ disk' = d2
                /\ call' = FRec("file_size", h, 0, res,
                                lfs_to_usize_fserror(res), <<>>)
          /\ rt' = NoRt
    /\ UNCHANGED <<owned, aborted, lfs, file, dir, prev>>
    /\ Aux

\* LittleFs::dir_open
DirOpen(d, p) ==
    /\ Live
    /\ dir[d].st # "absent"
    /\ \/ /\ lfs = "mounted"
          /\ LET name == DirOpenName[p]
                 res  == e_dir_open(disk, name)
             IN
                /\ dir' = [dir EXCEPT ![d] =
                              IF res = 0
                              THEN [st |-> "open", name |-> name, pos |-> 0]
                              ELSE DirValue("unopened")]
                /\ call' = DRec("dir_open", d, res, lfs_to_fserror(res), "none")
          /\ UNCHANGED disk
       \/ /\ lfs # "mounted"
          /\ \E res \in WildCodes, d2 \in WildDisk :
                /\ disk' = d2
                /\ call' = DRec("dir_open", d, res, lfs_to_fserror(res), "none")
          /\ UNCHANGED dir
    /\ rt' = NoRt
    /\ UNCHANGED <<owned, aborted, lfs, file, prev>>
    /\ Aux

\* LittleFs::dir_close(dir: &mut Dir): the Dir is borrowed, the caller keeps it
DirClose(d) ==
    /\ Live
    /\ dir[d].st # "absent"
    /\ \E res \in (IF ValidDir(d) THEN {LFS_ERR_OK} ELSE WildCodes) :
          call' = DRec("dir_close", d, res, lfs_to_fserror(res), "none")
    /\ dir' = [dir EXCEPT ![d] =
                  IF ValidDir(d) THEN [dir[d] EXCEPT !.st = "closed"] ELSE dir[d]]
    /\ rt' = NoRt
    /\ UNCHANGED <<owned, aborted, lfs, disk, file, prev>>
    /\ Aux

\* LittleFs::dir_read: the record is converted before the status is looked at
DirRead(d) ==
    /\ Live
    /\ dir[d].st # "absent"
    /\ \E r \in (IF ValidDir(d) THEN {e_dir_read(disk, dir[d])}
                  ELSE {[res |-> c, filled |-> FALSE, c |-> dir[d]] :
                            c \in WildCodes}) :
          \E o \in InfoFrom(r.filled) :
             IF o = "panic"
             THEN Panic
             ELSE /\ call' = DRec("dir_read", d, r.res, lfs_to_fserror(r.res), o)
                  /\ dir' = [dir EXCEPT ![d] = r.c]
                  /\ rt' = NoRt
                  /\ UNCHANGED <<owned, aborted, lfs, disk, file, prev>>
    /\ Aux

\* LittleFs::dir_seek
DirSeek(d, offset) ==
    /\ Live
    /\ dir[d].st # "absent"
    /\ \/ /\ ValidDir(d)
          /\ dir' = [dir EXCEPT ![d].pos = offset]
          /\ call' = DRec("dir_seek", d, 0, lfs_to_fserror(0), "none")
       \/ /\ ~ValidDir(d)
          /\ \E res \in WildCodes :
                call' = DRec("dir_seek", d, res, lfs_to_fserror(res), "none")
          /\ UNCHANGED dir
    /\ rt' = NoRt
    /\ UNCHANGED <<owned, aborted, lfs, disk, file, prev>>
    /\ Aux

\* LittleFs::dir_tell
DirTell(d) ==
    /\ Live
    /\ dir[d].st # "absent"
    /\ \E res \in (IF ValidDir(d) THEN {dir[d].pos} ELSE WildCodes) :
          call' = DRec("dir_tell", d, res, lfs_to_usize_fserror(res), "none")
    /\ rt' = NoRt
    /\ UNCHANGED <<owned, aborted, lfs, disk, file, dir, prev>>
    /\ Aux

\* LittleFs::dir_rewind
DirRewind(d) ==
    /\ Live
    /\ dir[d].st # "absent"
    /\ \/ /\ ValidDir(d)
          /\ dir' = [dir EXCEPT ![d].pos = 0]
          /\ call' = DRec("dir_rewind", d, 0, lfs_to_fserror(0), "none")
       \/ /\ ~ValidDir(d)
          /\ \E res \in WildCodes :
                call' = DRec("dir_rewind", d, res, lfs_to_fserror(res), "none")
          /\ UNCHANGED dir
    /\ rt' = NoRt
    /\ UNCHANGED <<owned, aborted, lfs, disk, file, prev>>
    /\ Aux

\* lfs_config_read / lfs_config_prog / lfs_config_erase: the Storage method
\* returned Err while the engine was serving a call, and unwrap() ends the
\* program before the call returns
TrampolinePanic ==
    /\ Live
    /\ Panic
    /\ Aux

\* the inputs of the calls in Spec, where every operation of the handle is
\* callable
OpenFlags  == {RDWR, RDWR + CREAT}
Payloads   == {<<104>>}
ReadSizes  == {32}
TruncSizes == {0}
DirOffs    == {0, 1}

\* the calls on the handle
Calls ==
    \/ Format
    \/ Mount
    \/ Unmount
    \/ \E p \in FsPaths : Remove(p)
    \/ \E p \in FsPaths, q \in FsPaths : Rename(p, q)
    \/ \E p \in FsPaths : Stat(p)
    \/ \E p \in FsPaths : Mkdir(p)
    \/ \E h \in FileIds, p \in FsPaths, fl \in OpenFlags : FileOpen(h, p, fl)
    \/ \E h \in FileIds : FileClose(h)
    \/ \E h \in FileIds : FileSync(h)
    \/ \E h \in FileIds, n \in ReadSizes : FileRead(h, n)
    \/ \E h \in FileIds, b \in Payloads : FileWrite(h, b)
    \/ \E h \in FileIds : FileSeek(h, 0, "Set")
    \/ \E h \in FileIds, n \in TruncSizes : FileTruncate(h, n)
    \/ \E h \in FileIds : FileTell(h)
    \/ \E h \in FileIds : FileRewind(h)
    \/ \E h \in FileIds : FileSize(h)
    \/ \E d \in DirIds, p \in FsPaths : DirOpen(d, p)
    \/ \E d \in DirIds : DirClose(d)
    \/ \E d \in DirIds : DirRead(d)
    \/ \E d \in DirIds, o \in DirOffs : DirSeek(d, o)
    \/ \E d \in DirIds : DirTell(d)
    \/ \E d \in DirIds : DirRewind(d)
    \/ TrampolinePanic

Next ==
    \/ \E h \in FileIds : NewFile(h)
    \/ \E d \in DirIds : NewDir(d)
    \/ Calls

Spec == Init /\ [][Next]_vars

------------------------------------------------------------------------------
(* SpecFile: the same handle, called for its file operations only, with     *)
(* more flags, payloads, buffer sizes and seeks.                            *)

FilePaths      == {<<47, 97>>}
FileOpenFlags  == {RDONLY, RDWR, RDWR + CREAT, RDWR + CREAT + EXCL,
                   WRONLY + TRUNC, RDWR + APPEND}
FilePayloads   == {<<104>>, <<104, 105>>}
FileReadSizes  == {1, 32}
FileSeekOffs   == {0 - 1, 0, 1}
Whences        == {"Set", "Cur", "End"}
FileTruncSizes == {0, 2}

NextFile ==
    \/ \E h \in FileIds : NewFile(h)
    \/ Format
    \/ Mount
    \/ Unmount
    \/ \E h \in FileIds, p \in FilePaths, fl \in FileOpenFlags :
          FileOpen(h, p, fl)
    \/ \E h \in FileIds : FileClose(h)
    \/ \E h \in FileIds : FileSync(h)
    \/ \E h \in FileIds, n \in FileReadSizes : FileRead(h, n)
    \/ \E h \in FileIds, b \in FilePayloads : FileWrite(h, b)
    \/ \E h \in FileIds, o \in FileSeekOffs, w \in Whences : FileSeek(h, o, w)
    \/ \E h \in FileIds, n \in FileTruncSizes : FileTruncate(h, n)
    \/ \E h \in FileIds : FileTell(h)
    \/ \E h \in FileIds : FileRewind(h)
    \/ \E h \in FileIds : FileSize(h)
    \/ TrampolinePanic

SpecFile == InitFile /\ [][NextFile]_vars

------------------------------------------------------------------------------
(* SpecTramp: the callbacks lfs_config_read, lfs_config_prog,               *)
(* lfs_config_erase and lfs_config_sync, one engine callback at a time.     *)
(* u32 and usize values are little-endian sequences of bytes, so that the   *)
(* arithmetic keeps its width.                                              *)

READ_SIZE   == 256
PROG_SIZE   == 256
BLOCK_SIZE  == 4096
BLOCK_COUNT == 32

\* a block number whose product with the block size does not fit 32 bits
BigBlock == 1048576

\* bytes of lfs_block_t / lfs_off_t / lfs_size_t (u32)
U32Bytes == 4
\* bytes of usize on the targets modelled: 32-bit and 64-bit
UsizeWidths == {4, 8}

Pow256 == <<1, 256, 65536, 16777216>>

\* byte i of a sequence of bytes, zero beyond its length
At(a, i) == IF i <= Len(a) THEN a[i] ELSE 0

\* the n-byte representation of x, 0 <= x < 2^31
ToBytes(x, n) == [i \in 1 .. n |-> IF i > 4 THEN 0 ELSE (x \div Pow256[i]) % 256]

\* column k of the schoolbook product of a and b
RECURSIVE ColSum(_, _, _, _)
ColSum(a, b, k, i) ==
    IF i > k THEN 0 ELSE At(a, i) * At(b, k + 1 - i) + ColSum(a, b, k, i + 1)

\* carry propagation over the columns from k on
RECURSIVE Normalize(_, _, _)
Normalize(cols, k, carry) ==
    IF k > Len(cols) THEN <<>>
    ELSE LET t == cols[k] + carry
         IN  <<t % 256>> \o Normalize(cols, k + 1, t \div 256)

\* the exact product and sum of two numbers of the same width
MulFull(a, b) == Normalize([k \in 1 .. 2 * Len(a) |-> ColSum(a, b, k, 1)], 1, 0)
AddFull(a, b) == Normalize([k \in 1 .. Len(a) + 1 |-> At(a, k) + At(b, k)], 1, 0)

\* an exact result cut to n bytes, and whether that lost anything
Wrapped(x, n) == [val |-> SubSeq(x, 1, n),
                  overflow |-> \E i \in (n + 1) .. Len(x) : x[i] # 0]

\* `x as usize` for a u32 x: zero-extended (or cut) to the width of usize
U32AsUsize(x, w) == [i \in 1 .. w |-> At(x, i)]

\* create_lfs_config: block_size: BLOCK_SIZE as u32, read_size: READ_SIZE as u32
cfg_block_size == ToBytes(BLOCK_SIZE, U32Bytes)
cfg_read_size  == ToBytes(READ_SIZE, U32Bytes)

\* lfs_config_read with the read size where the block size belongs
lfs_config_read_off_by_read_size(block, off, w) ==
    LET m == Wrapped(MulFull(block, cfg_read_size), U32Bytes)
        a == Wrapped(AddFull(m.val, off), U32Bytes)
    IN  [val |-> U32AsUsize(a.val, w), overflow |-> m.overflow \/ a.overflow]

\* lfs_config_read: let off = (block * block_size + off) as usize, in u32
lfs_config_read_off(block, off, w) ==
    LET m == Wrapped(MulFull(block, cfg_block_size), U32Bytes)
        a == Wrapped(AddFull(m.val, off), U32Bytes)
    IN  [val |-> U32AsUsize(a.val, w), overflow |-> m.overflow \/ a.overflow]

\* lfs_config_prog: let off = (block * block_size + off) as usize, in u32
lfs_config_prog_off(block, off, w) ==
    LET m == Wrapped(MulFull(block, cfg_block_size), U32Bytes)
        a == Wrapped(AddFull(m.val, off), U32Bytes)
    IN  [val |-> U32AsUsize(a.val, w), overflow |-> m.overflow \/ a.overflow]

\* lfs_config_erase: let off = block as usize * BLOCK_SIZE, in usize
lfs_config_erase_off(block, w) ==
    LET m == Wrapped(MulFull(U32AsUsize(block, w), ToBytes(BLOCK_SIZE, w)), w)
    IN  [val |-> m.val, overflow |-> m.overflow]

\* what the arithmetic of a callback does when it overflows: the panic of a
\* build with overflow checks, or the wrapped value of a build without
OnOverflow(o) == IF o.overflow THEN {"panic", "wrapped"} ELSE {"exact"}

\* Storage::read / write / erase return a Result, which the callback unwraps
StorageResults == {"Ok", "Err"}

\* the arguments the engine calls back with
TrampBlocks == {0, 1, BLOCK_COUNT - 1, BLOCK_COUNT, BigBlock}
TrampOffs   == {0, 1, BLOCK_SIZE - PROG_SIZE, BLOCK_SIZE - 1}
TrampSizes  == {1, PROG_SIZE, BLOCK_SIZE}

NoTramp(w) == [op |-> "none", w |-> w, block |-> 0, off |-> 0, size |-> 0,
               block_size |-> 0, fwd |-> "none", fwd_off |-> <<>>,
               fwd_len |-> <<>>, arith |-> "exact", ret |-> "none"]

\* a callback that got as far as the storage device, or panicked before
TrampRec(op, w, block, off, size, bs, o, arith, st) ==
    [op |-> op, w |-> w, block |-> block, off |-> off, size |-> size,
     block_size |-> bs,
     fwd |-> IF arith = "panic" THEN "none" ELSE op,
     fwd_off |-> IF arith = "panic" THEN <<>> ELSE o.val,
     fwd_len |-> IF arith = "panic" THEN <<>>
                 ELSE IF op = "erase" THEN ToBytes(BLOCK_SIZE, w)
                 ELSE U32AsUsize(ToBytes(size, U32Bytes), w),
     arith |-> arith,
     ret |-> IF arith = "panic" \/ st = "Err" THEN "panic" ELSE "0"]

InitTramp ==
    /\ \E w \in UsizeWidths : tramp = NoTramp(w)
    /\ ErrIdle
    /\ PathIdle
    /\ FsIdle
    /\ MemIdle

TrampFrame == UNCHANGED <<errVars, pathVars, fsVars, memVars>>

ConfigRead(block, off, size) ==
    /\ tramp.ret # "panic"
    /\ LET o == lfs_config_read_off(ToBytes(block, U32Bytes),
                                    ToBytes(off, U32Bytes), tramp.w)
       IN  \E arith \in OnOverflow(o), st \in StorageResults :
              tramp' = TrampRec("read", tramp.w, block, off, size,
                                cfg_block_size, o, arith, st)
    /\ TrampFrame

ConfigProg(block, off, size) ==
    /\ tramp.ret # "panic"
    /\ LET o == lfs_config_prog_off(ToBytes(block, U32Bytes),
                                    ToBytes(off, U32Bytes), tramp.w)
       IN  \E arith \in OnOverflow(o), st \in StorageResults :
              tramp' = TrampRec("prog", tramp.w, block, off, size,
                                cfg_block_size, o, arith, st)
    /\ TrampFrame

ConfigErase(block) ==
    /\ tramp.ret # "panic"
    /\ LET o == lfs_config_erase_off(ToBytes(block, U32Bytes), tramp.w)
       IN  \E arith \in OnOverflow(o), st \in StorageResults :
              tramp' = TrampRec("erase", tramp.w, block, 0, 0,
                                ToBytes(BLOCK_SIZE, U32Bytes), o, arith, st)
    /\ TrampFrame

\* lfs_config_sync: nothing is forwarded, 0 is returned
ConfigSync ==
    /\ tramp.ret # "panic"
    /\ tramp' = [NoTramp(tramp.w) EXCEPT !.op = "sync", !.ret = "0"]
    /\ TrampFrame

NextTramp ==
    \/ \E b \in TrampBlocks, o \in TrampOffs, n \in TrampSizes : ConfigRead(b, o, n)
    \/ \E b \in TrampBlocks, o \in TrampOffs, n \in TrampSizes : ConfigProg(b, o, n)
    \/ \E b \in TrampBlocks : ConfigErase(b)
    \/ ConfigSync

SpecTramp == InitTramp /\ [][NextTramp]_vars

------------------------------------------------------------------------------
(* SpecAddr: the places the LittleFs and File values live at, and the       *)
(* addresses the engine was given and keeps. A value passed or returned by  *)
(* value lives at a place of the callee's or caller's choosing afterwards.  *)

\* places a LittleFs value can live at, and places a File value can live at
FsPlaces   == {1, 2}
FilePlaces == {3, 4}
\* no place: the value does not exist (never made, or dropped)
Nowhere == 0

\* create_lfs_config for a LittleFs living at place at: context and the three
\* buffer addresses point into that value
create_lfs_config(at) ==
    [context |-> at, read_buffer |-> at, prog_buffer |-> at,
     lookahead_buffer |-> at]

\* the config record of LittleFs::new: mem::uninitialized
NoConfig == create_lfs_config(Nowhere)

\* one address the engine dereferences in a call: what it is, the place it was
\* captured at (Nowhere: never set), and the place its object lives at now
Use(what, cap, live) == [what |-> what, cap |-> cap, live |-> live]

\* what an engine call on &mut self.lfs dereferences of the handle living at
\* place at: the config record through lfs.cfg, the context in the callbacks,
\* and the buffers
EngineUses(m, at) ==
    {Use("lfs_config", m.lfs_cfg, at),
     Use("context", m.config.context, at),
     Use("read_buffer", m.config.read_buffer, at),
     Use("prog_buffer", m.config.prog_buffer, at),
     Use("lookahead_buffer", m.config.lookahead_buffer, at)}

\* what an engine call on a file dereferences of the File living at place at:
\* the file state block in the engine's list of open files and its buffer
FileUses(m, at) ==
    {Use("file_inner", m.f_inner, at), Use("file_buffer", m.f_buffer, at)}

InitAddr ==
    /\ \E at \in FsPlaces :
          mem = [fs |-> at, lfs_cfg |-> Nowhere, config |-> NoConfig,
                 file |-> Nowhere, f_inner |-> Nowhere, f_buffer |-> Nowhere,
                 op |-> "new", used |-> {}]
    /\ ErrIdle
    /\ PathIdle
    /\ FsIdle
    /\ TrampIdle

AddrFrame == UNCHANGED <<errVars, pathVars, fsVars, trampVars>>

\* the caller moves the LittleFs value: a binding, a return, a field
AddrMoveFs ==
    /\ mem.fs # Nowhere
    /\ \E to \in FsPlaces \ {mem.fs} :
          mem' = [mem EXCEPT !.fs = to, !.op = "move", !.used = {}]
    /\ AddrFrame

\* File::default(), returned by value to a place of the caller
AddrNewFile ==
    /\ mem.file = Nowhere
    /\ \E to \in FilePlaces :
          mem' = [mem EXCEPT !.file = to, !.op = "File::default", !.used = {}]
    /\ AddrFrame

\* the caller moves the File value
AddrMoveFile ==
    /\ mem.file # Nowhere
    /\ \E to \in FilePlaces \ {mem.file} :
          mem' = [mem EXCEPT !.file = to, !.op = "move_file", !.used = {}]
    /\ AddrFrame

\* LittleFs::format and LittleFs::mount: the config is rebuilt from where self
\* is now, the engine keeps &self.lfs_config in lfs and forgets its open files
AddrConfigure(op) ==
    /\ mem.fs # Nowhere
    /\ LET m == [mem EXCEPT !.config = create_lfs_config(mem.fs),
                            !.lfs_cfg = mem.fs,
                            !.f_inner = Nowhere, !.f_buffer = Nowhere]
       IN  mem' = [m EXCEPT !.op = op, !.used = EngineUses(m, mem.fs)]
    /\ AddrFrame

\* LittleFs::unmount(mut self): self is the callee's own value, then dropped
AddrUnmount ==
    /\ mem.fs # Nowhere
    /\ \E to \in FsPlaces :
          mem' = [mem EXCEPT !.fs = Nowhere, !.op = "unmount",
                             !.used = EngineUses(mem, to)]
    /\ AddrFrame

\* the methods on &mut self that pass &mut self.lfs and no File to the engine
AddrCall(op) ==
    /\ mem.fs # Nowhere
    /\ mem' = [mem EXCEPT !.op = op, !.used = EngineUses(mem, mem.fs)]
    /\ AddrFrame

\* LittleFs::file_open(&mut self, file: &mut File, ..): the engine is given
\* &mut file.inner and file.buffer.as_mut_ptr(), and keeps both
AddrFileOpen ==
    /\ mem.fs # Nowhere /\ mem.file # Nowhere
    /\ LET m == [mem EXCEPT !.f_inner = mem.file, !.f_buffer = mem.file]
       IN  mem' = [m EXCEPT !.op = "file_open",
                            !.used = EngineUses(m, mem.fs) \cup FileUses(m, mem.file)]
    /\ AddrFrame

\* the methods taking file: &mut File
AddrFileCall(op) ==
    /\ mem.fs # Nowhere /\ mem.file # Nowhere
    /\ mem' = [mem EXCEPT !.op = op,
                          !.used = EngineUses(mem, mem.fs)
                                      \cup FileUses(mem, mem.file)]
    /\ AddrFrame

\* LittleFs::file_close(&mut self, mut file: File): file is the callee's own
\* value, then dropped; the engine takes the file off its list
AddrFileClose ==
    /\ mem.fs # Nowhere /\ mem.file # Nowhere
    /\ \E to \in FilePlaces :
          mem' = [mem EXCEPT !.file = Nowhere, !.op = "file_close",
                             !.f_inner = Nowhere, !.f_buffer = Nowhere,
                             !.used = EngineUses(mem, mem.fs)
                                         \cup FileUses(mem, to)]
    /\ AddrFrame

\* LittleFs::file_sync(&mut self, mut file: File): file is the callee's own
\* value, then dropped; the engine still lists the file as open
AddrFileSync ==
    /\ mem.fs # Nowhere /\ mem.file # Nowhere
    /\ \E to \in FilePlaces :
          mem' = [mem EXCEPT !.file = Nowhere, !.op = "file_sync",
                             !.used = EngineUses(mem, mem.fs)
                                         \cup FileUses(mem, to)]
    /\ AddrFrame

AddrConfigureOps == {"format", "mount"}
AddrCallOps == {"remove", "rename", "stat", "mkdir", "dir_open", "dir_close",
                "dir_read", "dir_seek", "dir_tell", "dir_rewind"}
AddrFileCallOps == {"file_read", "file_write", "file_seek", "file_truncate",
                    "file_tell", "file_rewind", "file_size"}

NextAddr ==
    \/ AddrMoveFs
    \/ AddrNewFile
    \/ AddrMoveFile
    \/ \E op \in AddrConfigureOps : AddrConfigure(op)
    \/ AddrUnmount
    \/ \E op \in AddrCallOps : AddrCall(op)
    \/ AddrFileOpen
    \/ \E op \in AddrFileCallOps : AddrFileCall(op)
    \/ AddrFileClose
    \/ AddrFileSync

SpecAddr == InitAddr /\ [][NextAddr]_vars

------------------------------------------------------------------------------
(* Claims *)

\* the twelve enumerated codes and the kind each one names
ErrTable ==
    {<<LFS_ERR_IO, "Io">>, <<LFS_ERR_CORRUPT, "Corrupt">>,
     <<LFS_ERR_NOENT, "Noent">>, <<LFS_ERR_EXIST, "Exist">>,
     <<LFS_ERR_NOTDIR, "NotDir">>, <<LFS_ERR_ISDIR, "IsDir">>,
     <<LFS_ERR_NOTEMPTY, "NotEmpty">>, <<LFS_ERR_BADF, "Badf">>,
     <<LFS_ERR_FBIG, "FBig">>, <<LFS_ERR_INVAL, "Inval">>,
     <<LFS_ERR_NOSPC, "Nospc">>, <<LFS_ERR_NOMEM, "Nomem">>}

\* C1: each of the twelve enumerated codes maps to its same-named kind in both
\* forms; every non-negative code maps to Ok(()) in the plain form and to
\* Ok(code), the value kept, in the numeric form.
C1_ErrorTranslation ==
    /\ \A e \in ErrTable :
          code = e[1] =>
             /\ plain # NoResult => plain = Err(e[2])
             /\ numeric # NoResult => numeric = Err(e[2])
    /\ code >= 0 =>
          /\ plain # NoResult => plain.ok /\ plain.kind = "None"
          /\ numeric # NoResult =>
                numeric.ok /\ numeric.kind = "None" /\ numeric.val = code

C1_Witness ==
    /\ code = LFS_ERR_NOTDIR
    /\ plain = Err("NotDir")
    /\ numeric = Err("NotDir")

\* C2: no negative status code, enumerated or not, is reported as success by
\* either form.
C2_NoNegativeSuccess ==
    code < 0 => ~plain.ok /\ ~numeric.ok

\* the operations C3 names
BoundedOps == {"remove", "mkdir", "stat", "dir_open", "rename"}

\* C3: the buffer remove, mkdir, stat, dir_open and rename hand the engine has
\* NAME_MAX_LEN + 1 bytes, starts with the first min(NAME_MAX_LEN, len) bytes
\* of the path, is zero from there on (so it ends in a zero), is built without
\* a write outside it, and is the same for the same path text.
C3_PathBuffer ==
    /\ \A o \in BoundedOps : \A i \in 1..Len(sent[o]) :
          LET x == sent[o][i]
              n == IF Len(x.text) < NAME_MAX_LEN THEN Len(x.text)
                   ELSE NAME_MAX_LEN
          IN  /\ ~x.panic
              /\ Len(x.buf) = NAME_MAX_LEN + 1
              /\ \A j \in 1..n : x.buf[j] = x.text[j]
              /\ \A j \in (n + 1)..(NAME_MAX_LEN + 1) : x.buf[j] = 0
    /\ \A o1 \in BoundedOps, o2 \in BoundedOps :
          \A i \in 1..Len(sent[o1]), j \in 1..Len(sent[o2]) :
             sent[o1][i].text = sent[o2][j].text
                => sent[o1][i].buf = sent[o2][j].buf

C3_Witness ==
    /\ Len(path) = NAME_MAX_LEN + 1
    /\ sent["remove"] # <<>>
    /\ sent["rename"] # <<>>
    /\ sent["remove"][1].buf[NAME_MAX_LEN] = path[NAME_MAX_LEN]
    /\ sent["remove"][1].buf[NAME_MAX_LEN + 1] = 0

\* C4: for the same path text, file_open makes the engine read the same byte
\* string as remove, mkdir, stat, dir_open and rename do.
C4_SameEncoding ==
    \A o \in BoundedOps :
       sent["file_open"] # <<>> /\ sent[o] # <<>>
          => CStr(sent["file_open"][1].buf) = CStr(sent[o][1].buf)

\* C5: a handle is created Unmounted; format leaves it Unmounted; mount moves
\* it to Mounted exactly when it succeeds, and after a failure format and mount
\* can be called again; unmount moves Mounted to Consumed, where no call on
\* the handle can be made.
C5_Lifecycle ==
    /\ call.op = "none" /\ ~aborted => Lifecycle = "Unmounted"
    /\ call.op = "format" /\ call.before = "Unmounted"
          => Lifecycle = "Unmounted" /\ ENABLED Format /\ ENABLED Mount
    /\ call.op = "mount" /\ call.before = "Unmounted"
          => /\ call.ret.ok <=> Lifecycle = "Mounted"
             /\ ~call.ret.ok
                   => Lifecycle = "Unmounted" /\ ENABLED Format /\ ENABLED Mount
    /\ call.op = "unmount" /\ call.before = "Mounted" => Lifecycle = "Consumed"
    /\ Lifecycle = "Consumed" => ~ENABLED Calls

C5_Witness ==
    /\ call.op = "unmount"
    /\ call.before = "Mounted"
    /\ Lifecycle = "Consumed"
    /\ ~aborted

\* the calls that need a mounted filesystem
MountedOps ==
    {"remove", "rename", "mkdir", "stat",
     "file_open", "file_close", "file_sync", "file_read", "file_write",
     "file_seek", "file_truncate", "file_tell", "file_rewind", "file_size",
     "dir_open", "dir_close", "dir_read", "dir_seek", "dir_tell", "dir_rewind"}

FileOps ==
    {"file_open", "file_close", "file_sync", "file_read", "file_write",
     "file_seek", "file_truncate", "file_tell", "file_rewind", "file_size"}

DirOps == {"dir_read", "dir_seek", "dir_tell", "dir_rewind", "dir_close"}

\* C6: no path, file or directory operation reaches the engine while the
\* handle is not Mounted, and format reaches it only while the handle is
\* Unmounted.
C6_NoWrongStateCall ==
    /\ call.op \in MountedOps => call.before = "Mounted"
    /\ call.op = "format" => call.before = "Unmounted"

\* C7: after a successful file_sync on an open File, the same File is still
\* open with the caller, and file_close can be called on it.
C7_SyncKeepsHandle ==
    call.op = "file_sync" /\ call.before = "Mounted" /\ call.hs = "open"
        /\ call.ret.ok /\ Lifecycle = "Mounted"
      => file[call.h].st = "open" /\ ENABLED FileClose(call.h)

\* C8: no file operation reaches the engine on a File after file_close of it,
\* and no directory operation on a Dir after dir_close of it.
C8_NoUseAfterClose ==
    call.op \in FileOps \cup DirOps => call.hs \notin {"closed", "absent"}

OnOpenFile == call.before = "Mounted" /\ call.hs = "open"

\* the bytes of the File the recorded call was made on
FileBytes == file[call.h].data

C11_TrampolineAddressing ==
    /\ tramp.op \in {"read", "prog"}
          /\ tramp.block < BLOCK_COUNT /\ tramp.off + tramp.size <= BLOCK_SIZE
          => /\ tramp.arith = "exact"
             /\ tramp.fwd = tramp.op
             /\ tramp.block_size = ToBytes(BLOCK_SIZE, U32Bytes)
             /\ tramp.fwd_off
                   = ToBytes(tramp.block * BLOCK_SIZE + tramp.off, tramp.w)
             /\ tramp.fwd_len = ToBytes(tramp.size, tramp.w)
             /\ tramp.block * BLOCK_SIZE + tramp.off + tramp.size
                   <= BLOCK_COUNT * BLOCK_SIZE
    /\ tramp.op = "erase" /\ tramp.block < BLOCK_COUNT
          => /\ tramp.arith = "exact"
             /\ tramp.fwd = "erase"
             /\ tramp.block_size = cfg_block_size
             /\ tramp.fwd_off = ToBytes(tramp.block * BLOCK_SIZE, tramp.w)
             /\ tramp.fwd_len = ToBytes(BLOCK_SIZE, tramp.w)
             /\ tramp.block * BLOCK_SIZE + BLOCK_SIZE <= BLOCK_COUNT * BLOCK_SIZE

\* the read of the last PROG_SIZE bytes of the last block reached the device
C11_Witness ==
    /\ tramp.op = "read" /\ tramp.ret = "0"
    /\ tramp.block = BLOCK_COUNT - 1
    /\ tramp.off = BLOCK_SIZE - PROG_SIZE /\ tramp.size = PROG_SIZE
    /\ tramp.fwd_off = ToBytes(BLOCK_COUNT * BLOCK_SIZE - PROG_SIZE, tramp.w)

\* C12: when the engine reports an error from stat or dir_read on a mounted
\* filesystem, the call returns that error kind and the record the engine left
\* unfilled is neither read nor converted.
C12_ErrorWithoutRecord ==
    call.op \in {"stat", "dir_read"} /\ call.before = "Mounted" /\ call.res < 0
       => /\ ~call.ret.ok
          /\ call.ret = lfs_to_fserror(call.res)
          /\ call.info = "none"

\* C13: whenever an engine call dereferences an address captured earlier (the
\* config record and context, the read, program and lookahead buffers, the
\* file state block, the file buffer), that address is the one its object
\* lives at now.
C13_NoStaleAddress ==
    \A u \in mem.used : u.cap # Nowhere => u.cap = u.live

====
